---- MODULE Spec2Model ----
(***************************************************************************)
(* node2object (src/src/lib.rs): conversion of a treexml element tree into *)
(* a serde_json value.                                                     *)
(*                                                                         *)
(* Strings are sequences of one-character strings, so that parsing,        *)
(* concatenation and name casing are computed rather than assumed.         *)
(* A treexml attribute map is a sequence of (key, value) pairs with        *)
(* distinct keys: the sequence order is the iteration order of the map,    *)
(* and the inputs range over the orders.                                   *)
(***************************************************************************)
EXTENDS Integers, Sequences, FiniteSets, TLC

VARIABLES e, pc, kind, data, vectorized, ai, ci, result, object

vars == <<e, pc, kind, data, vectorized, ai, ci, result, object>>

(***************************************************************************)
(* Bounds of the input element trees.                                       *)
(***************************************************************************)
MaxChildren == 3

MaxAttrs == 2

MaxDepth == 2

(***************************************************************************)
(* Characters.                                                             *)
(***************************************************************************)
UpperChars == <<"A","B","C","D","E","F","G","H","I","J","K","L","M",
                "N","O","P","Q","R","S","T","U","V","W","X","Y","Z">>

LowerChars == <<"a","b","c","d","e","f","g","h","i","j","k","l","m",
                "n","o","p","q","r","s","t","u","v","w","x","y","z">>

DigitChars == <<"0","1","2","3","4","5","6","7","8","9">>

IndexOf(ch, seq) == CHOOSE i \in 1..Len(seq) : seq[i] = ch

IsUpper(ch) == \E i \in 1..Len(UpperChars) : UpperChars[i] = ch

IsLower(ch) == \E i \in 1..Len(LowerChars) : LowerChars[i] = ch

IsDigit(ch) == \E i \in 1..Len(DigitChars) : DigitChars[i] = ch

IsAlphanumeric(ch) == IsUpper(ch) \/ IsLower(ch) \/ IsDigit(ch)

ToLowerChar(ch) == IF IsUpper(ch) THEN LowerChars[IndexOf(ch, UpperChars)] ELSE ch

ToLowerStr(s) == [i \in 1..Len(s) |-> ToLowerChar(s[i])]

DigitVal(ch) == IndexOf(ch, DigitChars) - 1

(***************************************************************************)
(* str::parse::<f64>() (lib.rs:86).  The grammar of the standard library:  *)
(*   Float  ::= Sign? ( 'inf' | 'infinity' | 'nan' | Number )              *)
(*   Number ::= ( Digit+ | Digit+ '.' Digit* | Digit* '.' Digit+ ) Exp?    *)
(*   Exp    ::= 'e' Sign? Digit+                                           *)
(* with the words and the 'e' matched without regard to case.  A parsed    *)
(* value is kept as a normalised decimal  (-1)^neg * mant * 10^exp  (mant  *)
(* without trailing zeros), so "9000" and "9000.0" denote one number.      *)
(* The decimal is exact for the inputs used here: at most 9 significant    *)
(* digits and exponents of at most 3 digits.                               *)
(***************************************************************************)
F64Max10Exp == 308

F64MinSubnormal10Exp == -324

\* The first 9 significant digits of f64::MAX = 1.7976931348623157e308.
F64MaxLead9 == 179769313

RECURSIVE DigitsValue(_)
DigitsValue(s) ==
  IF Len(s) = 0 THEN 0
  ELSE 10 * DigitsValue(SubSeq(s, 1, Len(s) - 1)) + DigitVal(s[Len(s)])

RECURSIVE NumDigits(_)
NumDigits(n) == IF n < 10 THEN 1 ELSE 1 + NumDigits(n \div 10)

RECURSIVE Pow10(_)
Pow10(k) == IF k <= 0 THEN 1 ELSE 10 * Pow10(k - 1)

RECURSIVE StripZeros(_, _)
StripZeros(m, x) ==
  IF m # 0 /\ m % 10 = 0 THEN StripZeros(m \div 10, x + 1) ELSE <<m, x>>

AllDigits(s) == \A i \in 1..Len(s) : IsDigit(s[i])

FirstPos(s, chars) ==
  IF \E i \in 1..Len(s) : s[i] \in chars
    THEN CHOOSE i \in 1..Len(s) : s[i] \in chars /\ \A j \in 1..(i - 1) : s[j] \notin chars
    ELSE 0

F64(class, neg, mant, exp) == [ok |-> TRUE, class |-> class, neg |-> neg, mant |-> mant, exp |-> exp]

F64Err == [ok |-> FALSE, class |-> "err", neg |-> FALSE, mant |-> 0, exp |-> 0]

\* The nearest f64 of (-1)^neg * m * 10^x: infinite past f64::MAX, zero below
\* the smallest subnormal.
Dec2Flt(neg, m, x) ==
  IF m = 0 THEN F64("finite", neg, 0, 0)
  ELSE LET n == StripZeros(m, x)
           order == NumDigits(n[1]) + n[2] - 1
           lead9 == n[1] * Pow10(9 - NumDigits(n[1]))
       IN IF order > F64Max10Exp \/ (order = F64Max10Exp /\ lead9 > F64MaxLead9)
            THEN F64("inf", neg, 0, 0)
          ELSE IF order < F64MinSubnormal10Exp
            THEN F64("finite", neg, 0, 0)
          ELSE F64("finite", neg, n[1], n[2])

ParseNumber(neg, s) ==
  LET ePos == FirstPos(s, {"e", "E"})
      mantStr == IF ePos = 0 THEN s ELSE SubSeq(s, 1, ePos - 1)
      expStr == IF ePos = 0 THEN <<>> ELSE SubSeq(s, ePos + 1, Len(s))
      dotPos == FirstPos(mantStr, {"."})
      intStr == IF dotPos = 0 THEN mantStr ELSE SubSeq(mantStr, 1, dotPos - 1)
      fracStr == IF dotPos = 0 THEN <<>> ELSE SubSeq(mantStr, dotPos + 1, Len(mantStr))
      expSigned == Len(expStr) > 0 /\ expStr[1] \in {"+", "-"}
      expDigits == IF expSigned THEN Tail(expStr) ELSE expStr
      mantOk == AllDigits(intStr) /\ AllDigits(fracStr) /\ Len(intStr) + Len(fracStr) > 0
      expOk == ePos = 0 \/ (Len(expDigits) > 0 /\ AllDigits(expDigits))
      expVal == IF expSigned /\ expStr[1] = "-" THEN 0 - DigitsValue(expDigits)
                ELSE DigitsValue(expDigits)
  IN IF mantOk /\ expOk
       THEN Dec2Flt(neg, DigitsValue(intStr \o fracStr), expVal - Len(fracStr))
       ELSE F64Err

ParseF64(s) ==
  LET signed == Len(s) > 0 /\ s[1] \in {"+", "-"}
      neg == signed /\ s[1] = "-"
      body == IF signed THEN Tail(s) ELSE s
      low == ToLowerStr(body)
  IN IF low \in {<<"i","n","f">>, <<"i","n","f","i","n","i","t","y">>}
       THEN F64("inf", neg, 0, 0)
     ELSE IF low = <<"n","a","n">> THEN F64("nan", neg, 0, 0)
     ELSE ParseNumber(neg, body)

\* str::parse::<bool>() (lib.rs:96): the two lowercase words and nothing else.
ParseBool(s) ==
  IF s = <<"t","r","u","e">> THEN [ok |-> TRUE, b |-> TRUE]
  ELSE IF s = <<"f","a","l","s","e">> THEN [ok |-> TRUE, b |-> FALSE]
  ELSE [ok |-> FALSE, b |-> FALSE]

(***************************************************************************)
(* serde_json::Value.                                                      *)
(***************************************************************************)
Null == [type |-> "Null"]

Bool(b) == [type |-> "Bool", b |-> b]

Number(f) == [type |-> "Number", neg |-> f.neg, mant |-> f.mant, exp |-> f.exp]

String(s) == [type |-> "String", s |-> s]

Array(items) == [type |-> "Array", items |-> items]

Object(map) == [type |-> "Object", map |-> map]

None == [opt |-> "None"]

Some(v) == [opt |-> "Some", val |-> v]

\* The unwrap() of a None on the append path (lib.rs:140-144).
Panic == [opt |-> "Panic"]

\* serde_json::Number::from_f64 (lib.rs:87): None for NaN and the infinities.
NumberFromF64(f) == IF f.class = "finite" THEN Some(Number(f)) ELSE None

EmptyMap == [k \in {} |-> Null]

\* serde_json::Map::insert: the later insertion of a key replaces the earlier.
MapInsert(map, key, v) ==
  [k \in DOMAIN map \cup {key} |-> IF k = key THEN v ELSE map[k]]

\* parse_text without the finiteness test of Number::from_f64: every parsed
\* float becomes a Number.
Mut_parse_text(text) ==
  LET f == ParseF64(text)
      b == ParseBool(text)
  IN IF f.ok THEN Number(f)
     ELSE IF b.ok THEN Bool(b.b)
     ELSE String(text)

(***************************************************************************)
(* parse_text (lib.rs:85-104).                                             *)
(***************************************************************************)
parse_text(text) ==
  LET f == ParseF64(text)
      n == IF f.ok THEN NumberFromF64(f) ELSE None
      b == ParseBool(text)
  IN IF n.opt = "Some" THEN n.val
     ELSE IF b.ok THEN Bool(b.b)
     ELSE String(text)

(***************************************************************************)
(* inflector::cases::snakecase::to_snake_case (imported at lib.rs:49).     *)
(* Trailing non-alphanumerics are trimmed; a run of non-alphanumerics      *)
(* inside the name becomes one '_' (none at the start); an uppercase       *)
(* letter that is not first in its word and has a lowercase neighbour      *)
(* starts a new word; every letter is lowercased.                          *)
(***************************************************************************)
RECURSIVE TrimRightLen(_, _)
TrimRightLen(s, n) ==
  IF n > 0 /\ ~IsAlphanumeric(s[n]) THEN TrimRightLen(s, n - 1) ELSE n

NextOrPreviousCharIsLowercase(s, i) ==
  \/ (i + 1 <= Len(s) /\ IsLower(s[i + 1]))
  \/ (i - 1 >= 1 /\ IsLower(s[i - 1]))

RequiresSeparator(s, i, first) ==
  ~first /\ IsUpper(s[i]) /\ NextOrPreviousCharIsLowercase(s, i)

\* The loop of to_case_snake_like after the first i characters: <<first_character, result>>.
RECURSIVE SnakeLoop(_, _)
SnakeLoop(s, i) ==
  IF i = 0 THEN <<TRUE, <<>>>>
  ELSE LET prev == SnakeLoop(s, i - 1)
           first == prev[1]
           res == prev[2]
       IN IF ~IsAlphanumeric(s[i])
            THEN IF ~first THEN <<TRUE, Append(res, "_")>> ELSE prev
          ELSE IF RequiresSeparator(s, i, first)
            THEN <<FALSE, res \o <<"_", ToLowerChar(s[i])>>>>
          ELSE <<FALSE, Append(res, ToLowerChar(s[i]))>>

to_snake_case(s) == SnakeLoop(s, TrimRightLen(s, Len(s)))[2]

(***************************************************************************)
(* treexml::Element: name, attributes, text, cdata, children.              *)
(***************************************************************************)
Element(name, attributes, text, cdata, children) ==
  [name |-> name, attributes |-> attributes, text |-> text, cdata |-> cdata,
   children |-> children]

UnwrapOr(o, d) == IF o.opt = "Some" THEN o.val ELSE d

\* scan_xml_node taking an element with children for SemiStructured only
\* when it has both text and CDATA.
Mut_scan_xml_node(el) ==
  IF Len(el.children) = 0
    THEN IF el.text.opt = "None" /\ el.cdata.opt = "None"
           THEN IF Len(el.attributes) = 0 THEN "Empty" ELSE "Attributes"
           ELSE IF Len(el.attributes) = 0 THEN "Text" ELSE "TextAndAttributes"
    ELSE IF el.text.opt = "Some" /\ el.cdata.opt = "Some"
           THEN "SemiStructured"
           ELSE "Parent"

(***************************************************************************)
(* scan_xml_node (lib.rs:61-83).                                           *)
(***************************************************************************)
scan_xml_node(el) ==
  IF Len(el.children) = 0
    THEN IF el.text.opt = "None" /\ el.cdata.opt = "None"
           THEN IF Len(el.attributes) = 0 THEN "Empty" ELSE "Attributes"
           ELSE IF Len(el.attributes) = 0 THEN "Text" ELSE "TextAndAttributes"
    ELSE IF el.text.opt = "Some" \/ el.cdata.opt = "Some"
           THEN "SemiStructured"
           ELSE "Parent"

(***************************************************************************)
(* parse_text_contents (lib.rs:106-113).                                   *)
(***************************************************************************)
parse_text_contents(el) ==
  parse_text(UnwrapOr(el.text, <<>>) \o UnwrapOr(el.cdata, <<>>))

(***************************************************************************)
(* convert_node_aux (lib.rs:115-170).                                      *)
(***************************************************************************)
\* One (k, v) of the attribute iteration as an object entry (lib.rs:123, 157, 164).
AttributeEntry(kv) == <<to_snake_case(kv[1]), parse_text(kv[2])>>

\* Iterator::collect into a Map: the entries inserted in iteration order.
RECURSIVE Collect(_)
Collect(entries) ==
  IF Len(entries) = 0 THEN EmptyMap
  ELSE LET last == entries[Len(entries)]
       IN MapInsert(Collect(SubSeq(entries, 1, Len(entries) - 1)), last[1], last[2])

AttributeEntries(el) == [i \in 1..Len(el.attributes) |-> AttributeEntry(el.attributes[i])]

\* The Attributes arm (lib.rs:153-159).
ConvertAttributes(el) == Some(Object(Collect(AttributeEntries(el))))

\* The key of the chained text entry (lib.rs:165).
TextKey == <<"t","e","x","t">>

\* The TextAndAttributes arm with the text entry ahead of the attributes.
Mut_ConvertTextAndAttributes(el) ==
  Some(Object(Collect(<< <<TextKey, parse_text_contents(el)>> >> \o AttributeEntries(el))))

\* The TextAndAttributes arm (lib.rs:160-167).
ConvertTextAndAttributes(el) ==
  Some(Object(Collect(Append(AttributeEntries(el), <<TextKey, parse_text_contents(el)>>))))

\* The Text arm (lib.rs:152).
ConvertText(el) == Some(parse_text_contents(el))

\* The state of the Parent arm's loops: data, vectorized, and whether an
\* unwrap() of the append path has panicked.
FoldState(d, vec, panicked) == [data |-> d, vectorized |-> vec, panicked |-> panicked]

\* One iteration of the attribute loop (lib.rs:122-124).
InsertAttribute(d, kv) == MapInsert(d, AttributeEntry(kv)[1], AttributeEntry(kv)[2])

OptionName == <<"o","p","t","i","o","n">>

OptionTagName == <<"o","p","t","i","o","n","_","t","a","g">>

\* The key of a child without the rename of "option".
Mut_ChildKey(c) == to_snake_case(c.name)

\* The key a child is stored under (lib.rs:129-135).
ChildKey(c) ==
  LET snake_cased_name == to_snake_case(c.name)
  IN IF snake_cased_name = OptionName THEN OptionTagName ELSE snake_cased_name

\* The child loop keeping an entry that exists where it should insert the
\* first array of a key.
Mut_InsertChild(st, key, v) ==
  IF key \notin st.vectorized
    THEN FoldState(IF key \in DOMAIN st.data THEN st.data
                   ELSE MapInsert(st.data, key, Array(<<v>>)),
                   st.vectorized \cup {key}, st.panicked)
  ELSE IF key \in DOMAIN st.data /\ st.data[key].type = "Array"
    THEN FoldState(MapInsert(st.data, key, Array(Append(st.data[key].items, v))),
                   st.vectorized, st.panicked)
  ELSE FoldState(st.data, st.vectorized, TRUE)

\* The Some(v) arm of one iteration of the child loop (lib.rs:136-145).
InsertChild(st, key, v) ==
  IF key \notin st.vectorized
    THEN FoldState(MapInsert(st.data, key, Array(<<v>>)), st.vectorized \cup {key}, st.panicked)
  ELSE IF key \in DOMAIN st.data /\ st.data[key].type = "Array"
    THEN FoldState(MapInsert(st.data, key, Array(Append(st.data[key].items, v))),
                   st.vectorized, st.panicked)
  ELSE FoldState(st.data, st.vectorized, TRUE)

\* The child loop storing Null for a child without a fold value.
Mut_FoldChild(st, c, r) ==
  IF r.opt = "Panic" THEN FoldState(st.data, st.vectorized, TRUE)
  ELSE InsertChild(st, ChildKey(c), UnwrapOr(r, Null))

\* One iteration of the child loop, r being convert_node_aux(c) (lib.rs:126-149).
FoldChild(st, c, r) ==
  IF r.opt = "Some" THEN InsertChild(st, ChildKey(c), r.val)
  ELSE IF r.opt = "Panic" THEN FoldState(st.data, st.vectorized, TRUE)
  ELSE st

RECURSIVE FoldAttributes(_, _)
FoldAttributes(el, n) ==
  IF n = 0 THEN EmptyMap ELSE InsertAttribute(FoldAttributes(el, n - 1), el.attributes[n])

RECURSIVE convert_node_aux(_)

RECURSIVE FoldChildren(_, _)
FoldChildren(el, n) ==
  IF n = 0 THEN FoldState(FoldAttributes(el, Len(el.attributes)), {}, FALSE)
  ELSE LET st == FoldChildren(el, n - 1)
       IN IF st.panicked THEN st
          ELSE FoldChild(st, el.children[n], convert_node_aux(el.children[n]))

\* The Parent arm (lib.rs:117-151).
ConvertParent(el) ==
  LET st == FoldChildren(el, Len(el.children))
  IN IF st.panicked THEN Panic ELSE Some(Object(st.data))

convert_node_aux(el) ==
  LET t == scan_xml_node(el)
  IN IF t = "Parent" THEN ConvertParent(el)
     ELSE IF t = "Text" THEN ConvertText(el)
     ELSE IF t = "Attributes" THEN ConvertAttributes(el)
     ELSE IF t = "TextAndAttributes" THEN ConvertTextAndAttributes(el)
     ELSE None

\* node2object inserting the root key only when the root has a fold value.
Mut_node2object_map(el, r) ==
  IF r.opt = "Some" THEN MapInsert(EmptyMap, to_snake_case(el.name), r.val) ELSE EmptyMap

(***************************************************************************)
(* node2object (lib.rs:173-177).                                           *)
(***************************************************************************)
node2object_map(el, r) == MapInsert(EmptyMap, to_snake_case(el.name), UnwrapOr(r, Null))

(***************************************************************************)
(* The input space: element trees of every shape, drawn from small         *)
(* pools of names, attribute pairs and texts.                              *)
(***************************************************************************)
TextPool ==
  { <<"K","o","l","y","a">>, <<"9","0","0","0">>, <<"9","0","0","0",".","0">>,
    <<"t","r","u","e">>, <<"f","a","l","s","e">>, <<"T","r","u","e">>,
    <<"N","a","N">>, <<"i","n","f">>, <<"-","I","n","f","i","n","i","t","y">>,
    <<"1","e","9","9","9">>, <<"1",".","8","e","3","0","8">>, <<"1",".","5">>,
    <<"1">>, <<>>, <<"t","r">>, <<"+",".","5","e","1">>, <<"1","e">>, <<".">> }

CDataPool == { <<>>, <<"u","e">>, <<"0">>, <<"e","2">>, <<"s","c","o","t","c","h">> }

AttrPairs ==
  { << <<"s","c","o","r","e">>, <<"9","0","0","0">> >>,
    << <<"t","e","x","t">>, <<"h","o","t","d","o","g">> >>,
    << <<"T","e","x","t">>, <<"N","a","N">> >>,
    << <<"b">>, <<"t","r","u","e">> >>,
    << <<"o","p","t","i","o","n">>, <<"1">> >> }

\* The attribute maps of at most n entries, in every iteration order.
AttrSeqs(n) ==
  { s \in UNION { [1..k -> AttrPairs] : k \in 0..n } :
      \A i, j \in 1..Len(s) : i # j => s[i][1] # s[j][1] }

OptText(pool) == {None} \cup { Some(s) : s \in pool }

NameA == <<"a">>

NameB == <<"b">>

NameC == <<"c">>

RootNames == { NameA, <<"O","p","t","i","o","n">>, <<"S","e","r","v","e","r","D","a","t","a">> }

LeafB1 == Element(NameB, << << <<"f","i","r","s","t">>, <<"1">> >> >>, None, None, <<>>)

LeafB2 == Element(NameB, << << <<"f","i","r","s","t">>, <<"2">> >> >>, None, None, <<>>)

LeafC == Element(NameC, <<>>, Some(<<"s","c","o","t","c","h">>), None, <<>>)

LeafOption == Element(<<"O","p","t","i","o","n">>, <<>>, Some(<<"x">>), None, <<>>)

LeafOptionTag == Element(OptionTagName, <<>>, None, Some(<<"y">>), <<>>)

LeafEmpty == Element(NameB, <<>>, None, None, <<>>)

SemiOf(x) == Element(NameC, <<>>, Some(<<"t">>), None, <<x>>)

\* A Parent of depth d that holds a SemiStructured child among its children.
RECURSIVE Nest(_)
Nest(d) ==
  IF d <= 1 THEN LeafC
  ELSE Element(NameB, << << <<"f","r","e","n","c","h","F","r","y">>, <<"1","e","2">> >> >>,
               None, None, <<SemiOf(Nest(d - 1)), LeafOption, Nest(d - 1)>>)

ChildPool ==
  { LeafB1, LeafB2, LeafC, LeafOption, LeafEmpty,
    Nest(MaxDepth), SemiOf(Nest(MaxDepth - 1)) }

ChildSeqs == UNION { [1..n -> ChildPool] : n \in 1..MaxChildren }

SmallPool == { LeafB1, LeafOption, LeafOptionTag }

SmallSeqs == UNION { [1..n -> SmallPool] : n \in 1..2 }

\* Childless roots: Empty, Text, Attributes, TextAndAttributes.
LeafRoots ==
  { Element(<<"p","l","a","y","e","r">>, a, t, c, <<>>) :
      a \in AttrSeqs(1), t \in OptText(TextPool), c \in OptText(CDataPool) }
  \cup
  { Element(<<"p","l","a","y","e","r">>, a, t, c, <<>>) :
      a \in AttrSeqs(MaxAttrs),
      t \in OptText({<<"K","o","l","y","a">>, <<"1">>}), c \in OptText({<<"0">>}) }

\* Roots with children: Parent (text and cdata absent) and SemiStructured.
\* An attribute whose key is also the key of a child.
ParentAttrs == { <<>>, << << <<"b">>, <<"t","r","u","e">> >> >> }

ParentRoots ==
  { Element(NameA, a, None, None, cs) : a \in ParentAttrs, cs \in ChildSeqs }

AttrParentRoots ==
  { Element(n, a, None, None, cs) : n \in RootNames, a \in AttrSeqs(MaxAttrs), cs \in SmallSeqs }

SemiRoots ==
  { Element(n, a, t, c, <<x>>) :
      n \in RootNames, a \in AttrSeqs(1), x \in {LeafB1, Nest(MaxDepth)},
      t \in OptText({<<"t">>}), c \in OptText({<<"9">>}) }

Roots == LeafRoots \cup ParentRoots \cup AttrParentRoots \cup SemiRoots

(***************************************************************************)
(* One call of node2object(e).  The Parent arm of the root runs one loop   *)
(* iteration per step; the conversion of a child is the recursive call.    *)
(***************************************************************************)
Init ==
  /\ e \in Roots
  /\ pc = "scan"
  /\ kind = "unscanned"
  /\ data = EmptyMap
  /\ vectorized = {}
  /\ ai = 0
  /\ ci = 0
  /\ result = None
  /\ object = EmptyMap

\* match scan_xml_node(e) (lib.rs:116).
Scan ==
  /\ pc = "scan"
  /\ kind' = scan_xml_node(e)
  /\ pc' = "match"
  /\ UNCHANGED <<e, data, vectorized, ai, ci, result, object>>

\* XMLNodeType::Parent: the map and the set of the fold (lib.rs:117-119).
EnterParent ==
  /\ pc = "match" /\ kind = "Parent"
  /\ data' = EmptyMap
  /\ vectorized' = {}
  /\ ai' = 0
  /\ ci' = 0
  /\ pc' = "fold"
  /\ UNCHANGED <<e, kind, result, object>>

\* One iteration of the attribute loop (lib.rs:121-125).
AttributeStep ==
  /\ pc = "fold" /\ ai < Len(e.attributes)
  /\ data' = InsertAttribute(data, e.attributes[ai + 1])
  /\ ai' = ai + 1
  /\ UNCHANGED <<e, pc, kind, vectorized, ci, result, object>>

\* One iteration of the child loop (lib.rs:126-149).
ChildStep ==
  /\ pc = "fold" /\ ai = Len(e.attributes) /\ ci < Len(e.children)
  /\ LET c == e.children[ci + 1]
         st == FoldChild(FoldState(data, vectorized, FALSE), c, convert_node_aux(c))
     IN /\ data' = st.data
        /\ vectorized' = st.vectorized
        /\ pc' = IF st.panicked THEN "panic" ELSE "fold"
  /\ ci' = ci + 1
  /\ UNCHANGED <<e, kind, ai, result, object>>

\* Some(Value::Object(data)) (lib.rs:150).
FinishParent ==
  /\ pc = "fold" /\ ai = Len(e.attributes) /\ ci = Len(e.children)
  /\ result' = Some(Object(data))
  /\ pc' = "ret"
  /\ UNCHANGED <<e, kind, data, vectorized, ai, ci, object>>

TextArm ==
  /\ pc = "match" /\ kind = "Text"
  /\ result' = ConvertText(e)
  /\ pc' = "ret"
  /\ UNCHANGED <<e, kind, data, vectorized, ai, ci, object>>

AttributesArm ==
  /\ pc = "match" /\ kind = "Attributes"
  /\ result' = ConvertAttributes(e)
  /\ pc' = "ret"
  /\ UNCHANGED <<e, kind, data, vectorized, ai, ci, object>>

TextAndAttributesArm ==
  /\ pc = "match" /\ kind = "TextAndAttributes"
  /\ result' = ConvertTextAndAttributes(e)
  /\ pc' = "ret"
  /\ UNCHANGED <<e, kind, data, vectorized, ai, ci, object>>

\* The arm  _ => None  (lib.rs:168).
OtherArm ==
  /\ pc = "match" /\ kind \notin {"Parent", "Text", "Attributes", "TextAndAttributes"}
  /\ result' = None
  /\ pc' = "ret"
  /\ UNCHANGED <<e, kind, data, vectorized, ai, ci, object>>

\* node2object (lib.rs:173-177).
Node2Object ==
  /\ pc = "ret"
  /\ object' = node2object_map(e, result)
  /\ pc' = "done"
  /\ UNCHANGED <<e, kind, data, vectorized, ai, ci, result>>

Next ==
  \/ Scan
  \/ EnterParent
  \/ AttributeStep
  \/ ChildStep
  \/ FinishParent
  \/ TextArm
  \/ AttributesArm
  \/ TextAndAttributesArm
  \/ OtherArm
  \/ Node2Object

Spec == Init /\ [][Next]_vars

(***************************************************************************)
(* Properties.                                                             *)
(***************************************************************************)
Returned == pc \in {"ret", "done"}

AssembledText(el) == UnwrapOr(el.text, <<>>) \o UnwrapOr(el.cdata, <<>>)

IsSemi(el) == Len(el.children) > 0 /\ (el.text.opt = "Some" \/ el.cdata.opt = "Some")

RECURSIVE SubElements(_)
SubElements(el) ==
  {el} \cup UNION { SubElements(el.children[i]) : i \in 1..Len(el.children) }

C3_ScanTotal ==
  pc # "scan" =>
    LET hasC == Len(e.children) > 0
        hasT == e.text.opt = "Some" \/ e.cdata.opt = "Some"
        hasA == Len(e.attributes) > 0
    IN /\ kind \in {"Empty", "Text", "Attributes", "TextAndAttributes", "Parent", "SemiStructured"}
       /\ (kind = "Empty" <=> (~hasC /\ ~hasT /\ ~hasA))
       /\ (kind = "Text" <=> (~hasC /\ hasT /\ ~hasA))
       /\ (kind = "Attributes" <=> (~hasC /\ ~hasT /\ hasA))
       /\ (kind = "TextAndAttributes" <=> (~hasC /\ hasT /\ hasA))
       /\ (kind = "Parent" <=> (hasC /\ ~hasT))
       /\ (kind = "SemiStructured" <=> (hasC /\ hasT))

C3_Witness ==
  /\ pc = "match"
  /\ kind = "SemiStructured"
  /\ e.text.opt = "None" /\ e.cdata.opt = "Some"
  /\ Len(e.attributes) > 0

\* C4: the scalar of a text is Number exactly when the text parses as a
\* finite float, else Bool exactly when it is "true" or "false", else the
\* String of the text unchanged; NaN and the infinities are never a Number.
ScalarAsSpecified(s, v) ==
  LET f == ParseF64(s)
      finite == f.ok /\ f.class = "finite"
      isBool == s \in {<<"t","r","u","e">>, <<"f","a","l","s","e">>}
  IN /\ (finite => v = Number(f))
     /\ (v.type = "Number" => finite)
     /\ (~finite /\ isBool => v = Bool(s = <<"t","r","u","e">>))
     /\ (~finite /\ ~isBool => v = String(s))

C4_ScalarInference ==
  /\ (Returned /\ kind = "Text") => ScalarAsSpecified(AssembledText(e), result.val)
  /\ (Returned /\ kind = "Attributes" /\ Len(e.attributes) = 1) =>
       ScalarAsSpecified(e.attributes[1][2], result.val.map[to_snake_case(e.attributes[1][1])])

C4_Witness ==
  /\ pc = "done"
  /\ kind = "Text"
  /\ ParseF64(AssembledText(e)).ok
  /\ ParseF64(AssembledText(e)).class = "nan"
  /\ result.val = String(AssembledText(e))

\* The elements the array under key k is specified to hold: the fold values of
\* the children of el of key k that are not SemiStructured, in child order,
\* an Empty child counted with the value Null.
RECURSIVE ExpectedValuesUnder(_, _, _)
ExpectedValuesUnder(el, k, n) ==
  IF n = 0 THEN <<>>
  ELSE LET c == el.children[n]
           rest == ExpectedValuesUnder(el, k, n - 1)
       IN IF ChildKey(c) = k /\ ~IsSemi(c)
            THEN Append(rest, UnwrapOr(convert_node_aux(c), Null))
            ELSE rest

\* C2: the object of a Parent maps the key of every child that is not
\* SemiStructured to the array of the fold values of all such children of
\* that key, in their original order, a single child included.
C2_GroupsEveryChild ==
  (Returned /\ kind = "Parent") =>
    \A i \in 1..Len(e.children) :
      ~IsSemi(e.children[i]) =>
        LET k == ChildKey(e.children[i])
        IN /\ k \in DOMAIN data
           /\ data[k] = Array(ExpectedValuesUnder(e, k, Len(e.children)))

\* C5: a SemiStructured element has no fold value and no conversion panics;
\* the object of a Parent, at every depth, is the object of the same element
\* without its SemiStructured children; a SemiStructured root gives Null.
WithoutSemi(el) ==
  [el EXCEPT !.children = SelectSeq(el.children, LAMBDA c : ~IsSemi(c))]

C5_SemiStructuredDropped ==
  /\ pc # "panic"
  /\ (Returned /\ kind = "SemiStructured") => result = None
  /\ (pc = "done" /\ kind = "SemiStructured") => object[to_snake_case(e.name)] = Null
  /\ (Returned /\ kind = "Parent") =>
       /\ result = ConvertParent(WithoutSemi(e))
       /\ \A i \in 1..Len(e.children) :
            (/\ IsSemi(e.children[i])
             /\ \A j \in 1..Len(e.children) :
                  ChildKey(e.children[j]) = ChildKey(e.children[i]) => IsSemi(e.children[j])
             /\ \A a \in 1..Len(e.attributes) :
                  to_snake_case(e.attributes[a][1]) # ChildKey(e.children[i]))
            => ChildKey(e.children[i]) \notin DOMAIN result.val.map
  /\ pc = "done" =>
       \A p \in SubElements(e) :
         /\ (IsSemi(p) => convert_node_aux(p) = None)
         /\ (scan_xml_node(p) = "Parent" => convert_node_aux(p) = ConvertParent(WithoutSemi(p)))

C5_Witness ==
  /\ pc = "done"
  /\ kind = "Parent"
  /\ Len(e.children) = 2
  /\ IsSemi(e.children[1])
  /\ scan_xml_node(e.children[2]) = "Parent"
  /\ \E i \in 1..Len(e.children[2].children) : IsSemi(e.children[2].children[i])
  /\ DOMAIN data = {ChildKey(e.children[2])}
  /\ Len(data[ChildKey(e.children[2])].items) = 1

\* C6: a child whose key occurs once among its siblings is stored as its
\* bare value, and only a repeated key is stored as an array.
C6_SingleChildBare ==
  (Returned /\ kind = "Parent") =>
    \A i \in 1..Len(e.children) :
      LET c == e.children[i]
          r == convert_node_aux(c)
          once == \A j \in 1..Len(e.children) : ChildKey(e.children[j]) = ChildKey(c) => j = i
      IN (r.opt = "Some" /\ once) => data[ChildKey(c)] = r.val

\* C7: every attribute is stored under "@" followed by its name, and the
\* text of an element with text and attributes under "#text".
C7_PrefixedKeys ==
  (Returned /\ kind \in {"Attributes", "TextAndAttributes", "Parent"}) =>
    /\ \A a \in 1..Len(e.attributes) :
         (<<"@">> \o e.attributes[a][1]) \in DOMAIN result.val.map
    /\ (kind = "TextAndAttributes" => <<"#","t","e","x","t">> \in DOMAIN result.val.map)

\* C8: in a Parent fold every child with a fold value whose normalized name
\* is "option" is an element of the array under "option_tag", so the key
\* "option" never holds a child; attributes and the root keep the name.
C8_OptionRemap ==
  (pc \in {"fold", "ret", "done"} /\ kind = "Parent") =>
    /\ \A i \in 1..ci :
         LET c == e.children[i]
         IN (to_snake_case(c.name) = OptionName /\ convert_node_aux(c).opt = "Some") =>
              /\ OptionTagName \in DOMAIN data
              /\ data[OptionTagName].type = "Array"
              /\ \E j \in 1..Len(data[OptionTagName].items) :
                   data[OptionTagName].items[j] = convert_node_aux(c).val
    /\ (OptionTagName \in vectorized =>
          Len(data[OptionTagName].items) =
            Cardinality({ i \in 1..ci :
                            /\ to_snake_case(e.children[i].name) \in {OptionName, OptionTagName}
                            /\ convert_node_aux(e.children[i]).opt = "Some" }))
    /\ (OptionName \in DOMAIN data =>
          /\ OptionName \notin vectorized
          /\ \E a \in 1..ai :
               /\ to_snake_case(e.attributes[a][1]) = OptionName
               /\ data[OptionName] = parse_text(e.attributes[a][2]))
    /\ (pc = "done" => DOMAIN object = {to_snake_case(e.name)})

C8_Witness ==
  /\ pc = "done"
  /\ kind = "Parent"
  /\ to_snake_case(e.name) = OptionName
  /\ OptionName \in DOMAIN object
  /\ OptionName \in DOMAIN data
  /\ OptionTagName \in DOMAIN data
  /\ Len(data[OptionTagName].items) = 2
  /\ \E i \in 1..Len(e.children) : to_snake_case(e.children[i].name) = OptionName
  /\ \E i \in 1..Len(e.children) : to_snake_case(e.children[i].name) = OptionTagName

C10_VectorizedAreArrays ==
  /\ pc # "panic"
  /\ \A n \in vectorized : n \in DOMAIN data /\ data[n].type = "Array"
  /\ kind = "Parent" =>
       \A i \in 1..ci :
         convert_node_aux(e.children[i]).opt = "Some" =>
           /\ ChildKey(e.children[i]) \in vectorized
           /\ data[ChildKey(e.children[i])].type = "Array"
  /\ pc = "done" => \A p \in SubElements(e) : convert_node_aux(p).opt # "Panic"

C10_Witness ==
  /\ pc = "fold"
  /\ ci = 2
  /\ \E a \in 1..Len(e.attributes) : to_snake_case(e.attributes[a][1]) = ChildKey(e.children[1])
  /\ ChildKey(e.children[2]) = ChildKey(e.children[1])
  /\ data[ChildKey(e.children[1])].type = "Array"
  /\ Len(data[ChildKey(e.children[1])].items) = 2

====
